---- MODULE Spec2Model ----
(***************************************************************************)
(* Model of MESA-Docsynth's pipeline driver (src/generate.py): main(),     *)
(* save_document, get_existing_profile_ids and extract_output_content.     *)
(*                                                                         *)
(* Strings are sequences of pieces.  A piece is one of the two tags        *)
(* "<output>" and "</output>", a whitespace character, or another          *)
(* character.  No concatenation of the non-tag pieces forms a tag, so the  *)
(* regular expression of extract_output_content matches piece by piece.    *)
(***************************************************************************)
EXTENDS Integers, Sequences, FiniteSets, TLC

\* ------------------------------------------------------------------ bounds
NumProfiles == 2
MaxCount == 2
MaxExisting == 2
MaxTextLen == 5

\* ----------------------------------------------------------------- strings
OPEN == "<output>"
CLOSE == "</output>"
Whitespace == {" ", "\n"}
Pieces == {OPEN, CLOSE, " ", "\n", "x", "y"}

ProfileNames == <<"p1", "p2", "p3", "p4">>
ProfileIds == {ProfileNames[k] : k \in 1..NumProfiles}
LoadedProfiles == SubSeq(ProfileNames, 1, NumProfiles)
Variants == {"a", "b"}

\* None, and the empty (falsy) string
None == <<"None">>
NoProfile == ""

AllChars == <<OPEN, CLOSE, " ", "\n", "x", "y", "a", "b">> \o ProfileNames
Code(c) == CHOOSE k \in 1..Len(AllChars) : AllChars[k] = c

\* hashlib.md5(s.encode('utf-8')).hexdigest(): a digest that depends on every
\* character and on the length; distinct strings of the model get distinct
\* digests, as MD5 gives for any strings a run meets in practice.
RECURSIVE MD5(_)
MD5(s) ==
    IF s = <<>> THEN 0
    ELSE MD5(SubSeq(s, 1, Len(s) - 1)) * (Len(AllChars) + 1) + Code(s[Len(s)])

\* ------------------------------------------------- extract_output_content
\* str.strip(): drop leading, then trailing, whitespace
RECURSIVE LStrip(_)
LStrip(s) ==
    IF s # <<>> /\ s[1] \in Whitespace THEN LStrip(Tail(s)) ELSE s

RECURSIVE RStrip(_)
RStrip(s) ==
    IF s # <<>> /\ s[Len(s)] \in Whitespace
    THEN RStrip(SubSeq(s, 1, Len(s) - 1))
    ELSE s

Strip(s) == RStrip(LStrip(s))

\* the lazy group (.*?) followed by </output>: the nearest closing tag at or
\* after position k, 0 when there is none
RECURSIVE LazyClose(_, _)
LazyClose(s, k) ==
    IF k > Len(s) THEN 0
    ELSE IF s[k] = CLOSE THEN k
    ELSE LazyClose(s, k + 1)

\* re.search: try each start position from the left, first match wins
RECURSIVE ReSearch(_, _)
ReSearch(s, k) ==
    IF k > Len(s) THEN <<0, 0>>
    ELSE IF s[k] = OPEN /\ LazyClose(s, k + 1) # 0
         THEN <<k, LazyClose(s, k + 1)>>
    ELSE ReSearch(s, k + 1)

\* the group is greedy: (.*) runs to the last closing tag
RECURSIVE GreedyClose(_, _)
GreedyClose(s, k) ==
    IF k > Len(s) THEN 0
    ELSE IF GreedyClose(s, k + 1) # 0 THEN GreedyClose(s, k + 1)
    ELSE IF s[k] = CLOSE THEN k
    ELSE 0

extract_output_content_greedy(response_text) ==
    LET match == ReSearch(response_text, 1)
    IN IF match[1] # 0
       THEN Strip(SubSeq(response_text, match[1] + 1,
                         GreedyClose(response_text, match[1] + 1) - 1))
       ELSE Strip(response_text)

extract_output_content(response_text) ==
    LET match == ReSearch(response_text, 1)
    IN IF match[1] # 0
       THEN Strip(SubSeq(response_text, match[1] + 1, match[2] - 1))
       ELSE Strip(response_text)

\* ----------------------------------------------------------- save_document
\* the JSON object save_document dumps; the content key only when content
\* is not None
OutputRecord(md5_hash, structure_name, profile_id, timestamp, prompt, content) ==
    LET output == [doc_id |-> md5_hash,
                   document_name |-> structure_name,
                   document_sourcedb |-> "DocSynth",
                   profile |-> profile_id,
                   timestamp |-> timestamp,
                   prompt |-> prompt]
    IN IF content # None
       THEN [k \in DOMAIN output \cup {"content"} |->
                IF k = "content" THEN content ELSE output[k]]
       ELSE output

DocId(prompt, content) ==
    IF content # None THEN MD5(content) ELSE MD5(prompt)

\* open(output_path, "x"): a file that exists is left as it is
save_document_exclusive(d, structure_name, profile_id, timestamp, prompt, content) ==
    LET md5_hash == DocId(prompt, content)
    IN IF \E f \in d : f.name = md5_hash
       THEN d
       ELSE d \cup {[name |-> md5_hash, kind |-> "object",
                     json |-> OutputRecord(md5_hash, structure_name, profile_id,
                                           timestamp, prompt, content)]}

\* always hashes the prompt
save_document_prompt_hash(d, structure_name, profile_id, timestamp, prompt, content) ==
    LET md5_hash == MD5(prompt)
    IN {f \in d : f.name # md5_hash}
       \cup {[name |-> md5_hash, kind |-> "object",
              json |-> OutputRecord(md5_hash, structure_name, profile_id,
                                    timestamp, prompt, content)]}

\* the directory after save_document: open(output_path, "w") creates the
\* file <md5_hash>.json or replaces the one of that name
save_document(d, structure_name, profile_id, timestamp, prompt, content) ==
    LET md5_hash == DocId(prompt, content)
    IN {f \in d : f.name # md5_hash}
       \cup {[name |-> md5_hash, kind |-> "object",
              json |-> OutputRecord(md5_hash, structure_name, profile_id,
                                    timestamp, prompt, content)]}

\* ------------------------------------------------ get_existing_profile_ids
\* what reading one *.json file does: json.load raises JSONDecodeError on
\* invalid JSON and UnicodeDecodeError on undecodable bytes; data.get raises
\* AttributeError on a top-level list or string; on an object it returns the
\* profile field, or None
ReadProfile(f) ==
    CASE f.kind = "invalid_json" -> [exc |-> "JSONDecodeError", profile_id |-> NoProfile]
      [] f.kind = "bytes" -> [exc |-> "UnicodeDecodeError", profile_id |-> NoProfile]
      [] f.kind \in {"list", "string"} -> [exc |-> "AttributeError", profile_id |-> NoProfile]
      [] OTHER -> [exc |-> "none",
                   profile_id |-> IF "profile" \in DOMAIN f.json
                                  THEN f.json.profile ELSE NoProfile]

\* except (json.JSONDecodeError, KeyError)
Caught == {"JSONDecodeError", "KeyError"}

\* the scan reads another key than 'profile' and finds no id
get_existing_profile_ids_wrong_key(exists, d) ==
    IF ~exists THEN [raised |-> FALSE, existing_profiles |-> {}, warned |-> {}]
    ELSE IF \E f \in d : ReadProfile(f).exc \notin {"JSONDecodeError", "KeyError", "none"}
    THEN [raised |-> TRUE, existing_profiles |-> {}, warned |-> {}]
    ELSE [raised |-> FALSE, existing_profiles |-> {},
          warned |-> {f.name : f \in {g \in d : ReadProfile(g).exc
                                          \in {"JSONDecodeError", "KeyError"}}}]

\* the scan of the output directory: it raises when some file raises an
\* exception that is not caught (whatever the order of the glob); otherwise
\* it returns the truthy profile fields and has warned about the caught files
get_existing_profile_ids(exists, d) ==
    IF ~exists THEN [raised |-> FALSE, existing_profiles |-> {}, warned |-> {}]
    ELSE IF \E f \in d : ReadProfile(f).exc \notin Caught \cup {"none"}
    THEN [raised |-> TRUE, existing_profiles |-> {}, warned |-> {}]
    ELSE [raised |-> FALSE,
          existing_profiles |->
              {ReadProfile(f).profile_id :
                  f \in {g \in d : ReadProfile(g).exc = "none"
                                   /\ ReadProfile(g).profile_id # NoProfile}},
          warned |-> {f.name : f \in {g \in d : ReadProfile(g).exc \in Caught}}]

\* ------------------------------------------------------------ PromptBuilder
\* filter_existing_profiles: drop the profiles whose id is in the set
filter_existing_profiles(profiles, existing) ==
    SelectSeq(profiles, LAMBDA p : p \notin existing)

get_profile_count(profiles) == Len(profiles)

\* build_prompt: the prompt text of a profile, with one of the sampled
\* variants of names and locations
PromptOf(p, v) == <<p, v>>
StructureOf(v) == "structure"

\* ------------------------------------------------------------- LLM client
\* the texts llm_client.generate returns
Responses ==
    { <<"x", OPEN, "\n", "x", CLOSE>>,
      <<"y">>,
      <<OPEN, " ", CLOSE>> }

\* ------------------------------------------------------------------ state
\* files an earlier run, or something else, left in the output directory
ExistingChoices ==
    save_document({}, "structure", "p1", 0, PromptOf("p1", "a"), None)
    \cup save_document({}, "structure", "p2", 0, PromptOf("p2", "a"), <<"x">>)
    \cup { [name |-> -1, kind |-> "object", json |-> [document_name |-> "note"]],
           [name |-> -2, kind |-> "invalid_json"],
           [name |-> -3, kind |-> "list"],
           [name |-> -4, kind |-> "bytes"] }

VARIABLES
    cfg,            \* pipeline_config: llm, create_result, skip_existing, mode, count
    dir_exists,     \* output_dir.exists()
    dir,            \* the files of the output directory
    dir0,           \* the output directory when main() started
    pc,             \* where main() is
    abort,          \* the uncaught exception that ended main(), or "none"
    llm_client,     \* TRUE when create_llm_client returned a client
    profiles,       \* the profiles of builder.profile_loader
    scan,           \* the result of get_existing_profile_ids, once called
    total_docs,
    i,              \* the loop index
    cur,            \* profile, prompt, structure_name, profile_id, timestamp, content
    clock,          \* datetime.now()
    log,            \* <<event, i, profile_id>> in the order of the calls
    written,        \* the save_document calls of this run: [i, path, content, doc]
    response_text,  \* the input of extract_output_content
    extracted,      \* its result
    epc

vars == <<cfg, dir_exists, dir, dir0, pc, abort, llm_client, profiles, scan,
          total_docs, i, cur, clock, log, written, response_text, extracted, epc>>

mainVars == <<cfg, dir_exists, dir, dir0, pc, abort, llm_client, profiles, scan,
              total_docs, i, cur, clock, log, written>>

extractVars == <<response_text, extracted, epc>>

NoCur == [profile |-> NoProfile, prompt |-> None, structure_name |-> "",
          profile_id |-> NoProfile, timestamp |-> 0, content |-> None]

NoScan == [called |-> FALSE, raised |-> FALSE, existing_profiles |-> {}, warned |-> {}]

Configs ==
    { c \in [llm_enabled : BOOLEAN,
             create_result : {"client", "none", "raise"},
             skip_existing : BOOLEAN,
             mode : {"sequential", "random"},
             count : -1..MaxCount] :
        ~c.llm_enabled => c.create_result = "none" }

InitMain ==
    /\ cfg \in Configs
    /\ dir0 \in {d \in SUBSET ExistingChoices : Cardinality(d) <= MaxExisting}
    /\ dir = dir0
    /\ dir_exists \in (IF dir0 = {} THEN BOOLEAN ELSE {TRUE})
    /\ pc = "init_llm"
    /\ abort = "none"
    /\ llm_client = FALSE
    /\ profiles = LoadedProfiles
    /\ scan = NoScan
    /\ total_docs = 0
    /\ i = 0
    /\ cur = NoCur
    /\ clock = 1
    /\ log = <<>>
    /\ written = <<>>

ExtractIdle ==
    /\ response_text = <<>>
    /\ extracted = <<>>
    /\ epc = "idle"

Init == InitMain /\ ExtractIdle

\* ------------------------------------------------------------------ main()
Logged(ev, p) == Append(log, <<ev, i, p>>)

\* the except branch does not return
InitLLMNoReturn ==
    /\ pc = "init_llm"
    /\ log' = IF cfg.llm_enabled /\ cfg.create_result = "raise"
              THEN Logged("init_error", NoProfile) ELSE log
    /\ llm_client' = (cfg.llm_enabled /\ cfg.create_result = "client")
    /\ pc' = "skip_existing"
    /\ UNCHANGED <<cfg, dir_exists, dir, dir0, abort, profiles, scan, total_docs,
                   i, cur, clock, written>>
    /\ UNCHANGED extractVars

\* lines 157-177: initialise the chosen LLM client
InitLLM ==
    /\ pc = "init_llm"
    /\ IF cfg.llm_enabled /\ cfg.create_result = "raise"
       THEN /\ log' = Logged("init_error", NoProfile)
            /\ pc' = "returned"
            /\ llm_client' = FALSE
       ELSE /\ llm_client' = (cfg.llm_enabled /\ cfg.create_result = "client")
            /\ pc' = "skip_existing"
            /\ log' = log
    /\ UNCHANGED <<cfg, dir_exists, dir, dir0, abort, profiles, scan, total_docs,
                   i, cur, clock, written>>
    /\ UNCHANGED extractVars

\* lines 182-193: the skip_existing flag filters the profiles
SkipExisting ==
    /\ pc = "skip_existing"
    /\ IF cfg.skip_existing
       THEN LET r == get_existing_profile_ids(dir_exists, dir)
            IN /\ scan' = [called |-> TRUE, raised |-> r.raised,
                           existing_profiles |-> r.existing_profiles,
                           warned |-> r.warned]
               /\ IF r.raised
                  THEN /\ pc' = "aborted"
                       /\ abort' = "get_existing_profile_ids"
                       /\ profiles' = profiles
                  ELSE /\ pc' = "count"
                       /\ abort' = abort
                       /\ profiles' = filter_existing_profiles(profiles,
                                                               r.existing_profiles)
       ELSE /\ pc' = "count"
            /\ UNCHANGED <<scan, abort, profiles>>
    /\ UNCHANGED <<cfg, dir_exists, dir, dir0, llm_client, total_docs, i, cur,
                   clock, log, written>>
    /\ UNCHANGED extractVars

\* total_docs is the configured count whatever it is
TotalDocsNoAll(count, n) == count

\* line 200
TotalDocs(count, n) == IF count = -1 THEN n ELSE count

\* lines 195-204
ComputeTotalDocs ==
    /\ pc = "count"
    /\ total_docs' = TotalDocs(cfg.count, get_profile_count(profiles))
    /\ i' = 1
    /\ pc' = "loop"
    /\ UNCHANGED <<cfg, dir_exists, dir, dir0, abort, llm_client, profiles, scan,
                   cur, clock, log, written>>
    /\ UNCHANGED extractVars

\* get_sequential_profiles: the profiles in their order
get_sequential_profiles(ps) == ps

\* the break is taken one iteration late
SequentialBreakLate(k, total) == k > total + 1

\* line 209: if i > total_docs: break
SequentialBreak(k, total) == k > total

\* lines 208-210: the next item of enumerate(get_sequential_profiles(), 1)
SequentialNext ==
    /\ pc = "loop"
    /\ cfg.mode = "sequential"
    /\ IF i > Len(get_sequential_profiles(profiles)) \/ SequentialBreak(i, total_docs)
       THEN /\ pc' = "done"
            /\ cur' = cur
       ELSE /\ pc' = "build"
            /\ cur' = [NoCur EXCEPT !.profile = get_sequential_profiles(profiles)[i]]
    /\ UNCHANGED <<cfg, dir_exists, dir, dir0, abort, llm_client, profiles, scan,
                   total_docs, i, clock, log, written>>
    /\ UNCHANGED extractVars

\* lines 235-236: the next i of range(1, total_docs + 1) and a random profile
RandomNext ==
    /\ pc = "loop"
    /\ cfg.mode = "random"
    /\ IF i > total_docs
       THEN /\ pc' = "done"
            /\ UNCHANGED <<cur, abort>>
       ELSE IF profiles = <<>>
       THEN /\ pc' = "aborted"
            /\ abort' = "get_random_profile"
            /\ cur' = cur
       ELSE /\ pc' = "build"
            /\ abort' = abort
            /\ \E k \in 1..Len(profiles) :
                  cur' = [NoCur EXCEPT !.profile = profiles[k]]
    /\ UNCHANGED <<cfg, dir_exists, dir, dir0, llm_client, profiles, scan,
                   total_docs, i, clock, log, written>>
    /\ UNCHANGED extractVars

\* lines 212-217 and 238-243: build_prompt returns, generate_timestamp,
\* content = None
BuildPrompt ==
    /\ pc = "build"
    /\ \E v \in Variants :
          cur' = [profile |-> cur.profile,
                  prompt |-> PromptOf(cur.profile, v),
                  structure_name |-> StructureOf(v),
                  profile_id |-> cur.profile,
                  timestamp |-> clock,
                  content |-> None]
    /\ clock' = clock + 1
    /\ log' = Logged("attempt", cur.profile)
    /\ pc' = IF llm_client THEN "generate" ELSE "save"
    /\ UNCHANGED <<cfg, dir_exists, dir, dir0, abort, llm_client, profiles, scan,
                   total_docs, i, written>>
    /\ UNCHANGED extractVars

\* the exception of build_prompt is handled like one of generate
BuildPromptRaisesSkipped ==
    /\ pc = "build"
    /\ log' = Logged("attempt", cur.profile)
                  \o <<<<"build_raised", i, cur.profile>>, <<"error", i, cur.profile>>>>
    /\ i' = i + 1
    /\ pc' = "loop"
    /\ UNCHANGED <<cfg, dir_exists, dir, dir0, abort, llm_client, profiles, scan,
                   total_docs, cur, clock, written>>
    /\ UNCHANGED extractVars

\* lines 212 and 238: build_prompt raises, outside any try
BuildPromptRaises ==
    /\ pc = "build"
    /\ log' = Logged("attempt", cur.profile) \o <<<<"build_raised", i, cur.profile>>>>
    /\ pc' = "aborted"
    /\ abort' = "build_prompt"
    /\ UNCHANGED <<cfg, dir_exists, dir, dir0, llm_client, profiles, scan,
                   total_docs, i, cur, clock, written>>
    /\ UNCHANGED extractVars

\* lines 219-225 and 245-251: generate returns and the content is extracted
GenerateContent ==
    /\ pc = "generate"
    /\ \E r \in Responses :
          cur' = [cur EXCEPT !.content = extract_output_content(r)]
    /\ log' = Logged("generate", cur.profile_id)
    /\ pc' = "save"
    /\ UNCHANGED <<cfg, dir_exists, dir, dir0, abort, llm_client, profiles, scan,
                   total_docs, i, clock, written>>
    /\ UNCHANGED extractVars

\* the exception is not caught
GenerateRaisesUncaught ==
    /\ pc = "generate"
    /\ log' = Logged("generate", cur.profile_id) \o <<<<"error", i, cur.profile_id>>>>
    /\ pc' = "aborted"
    /\ abort' = "generate"
    /\ UNCHANGED <<cfg, dir_exists, dir, dir0, llm_client, profiles, scan,
                   total_docs, i, cur, clock, written>>
    /\ UNCHANGED extractVars

\* lines 226-229 and 252-255: generate (or the extraction) raises; the
\* error is logged and the loop continues
GenerateRaises ==
    /\ pc = "generate"
    /\ log' = Logged("generate", cur.profile_id) \o <<<<"error", i, cur.profile_id>>>>
    /\ i' = i + 1
    /\ pc' = "loop"
    /\ UNCHANGED <<cfg, dir_exists, dir, dir0, abort, llm_client, profiles, scan,
                   total_docs, cur, clock, written>>
    /\ UNCHANGED extractVars

\* lines 231-232 and 257-258
SaveDocument ==
    /\ pc = "save"
    /\ dir' = save_document(dir, cur.structure_name, cur.profile_id,
                            cur.timestamp, cur.prompt, cur.content)
    /\ dir_exists' = TRUE
    /\ written' = Append(written, [i |-> i,
                                   path |-> DocId(cur.prompt, cur.content),
                                   content |-> cur.content,
                                   doc |-> OutputRecord(
                                       DocId(cur.prompt, cur.content),
                                       cur.structure_name, cur.profile_id,
                                       cur.timestamp, cur.prompt, cur.content)])
    /\ log' = Logged("saved", cur.profile_id)
    /\ i' = i + 1
    /\ pc' = "loop"
    /\ UNCHANGED <<cfg, dir0, abort, llm_client, profiles, scan, total_docs, cur,
                   clock>>
    /\ UNCHANGED extractVars

Next ==
    \/ InitLLM
    \/ SkipExisting
    \/ ComputeTotalDocs
    \/ SequentialNext
    \/ RandomNext
    \/ BuildPrompt
    \/ BuildPromptRaises
    \/ GenerateContent
    \/ GenerateRaises
    \/ SaveDocument

Spec == Init /\ [][Next]_vars

\* ------------------------------------ extract_output_content on every text
IdleMain ==
    /\ cfg = [llm_enabled |-> FALSE, create_result |-> "none",
              skip_existing |-> FALSE, mode |-> "sequential", count |-> 0]
    /\ dir0 = {}
    /\ dir = {}
    /\ dir_exists = FALSE
    /\ pc = "idle"
    /\ abort = "none"
    /\ llm_client = FALSE
    /\ profiles = LoadedProfiles
    /\ scan = NoScan
    /\ total_docs = 0
    /\ i = 0
    /\ cur = NoCur
    /\ clock = 1
    /\ log = <<>>
    /\ written = <<>>

InitExtract ==
    /\ IdleMain
    /\ response_text = <<>>
    /\ extracted = <<>>
    /\ epc = "input"

\* the response grows by one piece
AppendPiece ==
    /\ epc = "input"
    /\ Len(response_text) < MaxTextLen
    /\ \E c \in Pieces : response_text' = Append(response_text, c)
    /\ UNCHANGED <<extracted, epc>>
    /\ UNCHANGED mainVars

CallExtract ==
    /\ epc = "input"
    /\ extracted' = extract_output_content(response_text)
    /\ epc' = "done"
    /\ UNCHANGED response_text
    /\ UNCHANGED mainVars

NextExtract == AppendPiece \/ CallExtract

SpecExtract == InitExtract /\ [][NextExtract]_vars

\* ================================================================= claims
Events(ev) == SelectSeq(log, LAMBDA e : e[1] = ev)

\* the profile ids of the build_prompt calls, in order
Attempts == [k \in 1..Len(Events("attempt")) |-> Events("attempt")[k][3]]

Range(f) == {f[k] : k \in DOMAIN f}

IsPrefix(a, b) == Len(a) <= Len(b) /\ a = SubSeq(b, 1, Len(a))

\* the number of iterations the loop is to make
Planned ==
    IF cfg.mode = "sequential" /\ Len(profiles) < total_docs
    THEN Len(profiles) ELSE total_docs

\* the profile fields of the JSON objects of a directory
ProfileFields(d) ==
    {f.json.profile : f \in {g \in d : g.kind = "object"
                                       /\ "profile" \in DOMAIN g.json}}

InLoop == pc \in {"loop", "build", "generate", "save", "done"}

\* ---------------------------------------------------------------------- C1
\* C1: when llm_client.generate (or the extraction) raises for a profile,
\* the error is logged, no file is written for that iteration, main() goes on
\* with the next iteration, and a run that ends has attempted every later
\* iteration.
C1_GenerateErrorSkipsProfile ==
    \A k \in 1..Len(log) :
        log[k][1] = "error" =>
            /\ \A w \in Range(written) : w.i # log[k][2]
            /\ \A e \in Range(log) : ~(e[1] = "saved" /\ e[2] = log[k][2])
            /\ k = Len(log) => /\ pc \in {"loop", "build", "done"}
                               /\ i = log[k][2] + 1
                               /\ abort = "none"
            /\ pc = "done" =>
                  \A j \in (log[k][2] + 1)..Planned :
                      \E e \in Range(log) : e[1] = "attempt" /\ e[2] = j

C1_Witness ==
    /\ pc = "done"
    /\ \E e \in Range(log), a \in Range(log), w \in Range(written) :
          /\ e[1] = "error"
          /\ a[1] = "attempt" /\ a[2] > e[2]
          /\ w.i > e[2]

\* ---------------------------------------------------------------------- C2
\* C2 as stated: an exception of build_prompt is a per-document error, the
\* profile is skipped and the run continues.
C2_BuildPromptErrorIsSkipped ==
    \A k \in 1..Len(log) :
        log[k][1] = "build_raised" => pc # "aborted"

\* C2 amended: an exception of build_prompt is not caught by main(): it ends
\* the run at once; no error is logged for the profile, no file is written
\* for it and no later profile is attempted.
C2_BuildPromptErrorAborts ==
    \A k \in 1..Len(log) :
        log[k][1] = "build_raised" =>
            /\ k = Len(log)
            /\ pc = "aborted"
            /\ abort = "build_prompt"
            /\ \A w \in Range(written) : w.i # log[k][2]
            /\ \A e \in Range(log) : e[1] \in {"error", "attempt"} => e[2] <= log[k][2]
            /\ \A e \in Range(log) : e[1] = "error" => e[2] # log[k][2]

C2_Witness ==
    /\ \E e \in Range(log) : e[1] = "build_raised" /\ e[2] < Planned
    /\ pc = "aborted"

\* ---------------------------------------------------------------------- C3
\* C3: every file save_document wrote is named by its doc_id; the doc_id is
\* the MD5 of the stored content when the record has a content field (also
\* an empty one) and of the stored prompt when it has none; the content
\* field is there exactly when the content passed was not None.
C3_FileNamedByHash ==
    /\ \A f \in dir :
          (f.kind = "object" /\ "doc_id" \in DOMAIN f.json) =>
              /\ f.name = f.json.doc_id
              /\ f.json.doc_id = IF "content" \in DOMAIN f.json
                                 THEN MD5(f.json.content)
                                 ELSE MD5(f.json.prompt)
    /\ \A k \in 1..Len(written) :
          (\A j \in (k + 1)..Len(written) : written[j].path # written[k].path) =>
          \E f \in dir :
              /\ f.name = written[k].path
              /\ f.kind = "object"
              /\ ("content" \in DOMAIN f.json) <=> (written[k].content # None)
              /\ written[k].content # None => f.json.content = written[k].content

C3_Witness ==
    /\ \E w \in Range(written) : w.content = <<>>
    /\ \E w \in Range(written) : w.content # None /\ w.content # <<>>
    /\ \E f \in dir : f.kind = "object" /\ "doc_id" \in DOMAIN f.json
                      /\ "content" \notin DOMAIN f.json

\* ---------------------------------------------------------------------- C4
\* C4 as stated: no save_document call writes a path that an earlier call,
\* of this run or of an earlier run into the directory, already wrote.
C4_NeverRewritten ==
    \A k \in 1..Len(written) :
        /\ \A j \in 1..(k - 1) : written[j].path # written[k].path
        /\ \A f \in dir0 : f.name # written[k].path

\* C4 amended: save_document writes <doc_id>.json whether or not it exists:
\* a path written in the run holds the record of the last call that wrote it
\* (an earlier record of the same doc_id is replaced whole), and every other
\* file of the directory is left as it was.
C4_LastWriteWins ==
    /\ \A k \in 1..Len(written) :
          (\A j \in (k + 1)..Len(written) : written[j].path # written[k].path) =>
              [name |-> written[k].path, kind |-> "object", json |-> written[k].doc]
                  \in dir
    /\ \A f \in dir0 :
          (\A w \in Range(written) : w.path # f.name) => f \in dir
    /\ \A f \in dir :
          \/ f \in dir0
          \/ \E w \in Range(written) : w.path = f.name
    /\ \A f, g \in dir : f.name = g.name => f = g

C4_Witness ==
    /\ pc = "done"
    /\ \E j, k \in 1..Len(written) : j < k /\ written[j].path = written[k].path
    /\ \E k \in 1..Len(written) : \E f \in dir0 : f.name = written[k].path

\* ---------------------------------------------------------------------- C5
\* C5: in sequential mode with count = -1 the attempts are, in order, the
\* profiles left after the skip_existing filter: never one twice or one
\* beyond them, and all of them when the loop ends.
C5_SequentialAll ==
    (cfg.mode = "sequential" /\ cfg.count = -1 /\ InLoop) =>
        /\ IsPrefix(Attempts, profiles)
        /\ pc = "done" => Attempts = profiles

C5_Witness ==
    /\ cfg.mode = "sequential" /\ cfg.count = -1
    /\ pc = "done"
    /\ Len(Attempts) >= 2
    /\ Events("error") # <<>>

\* ---------------------------------------------------------------------- C6
\* C6: with count = N, 0 <= N < the number of available profiles, a run that
\* ends has made exactly N attempts in either mode: N prompts built, N calls
\* of generate when a client is there, and failed attempts are not replaced.
C6_ExactlyCountAttempts ==
    (pc = "done" /\ cfg.count >= 0 /\ cfg.count < Len(profiles)) =>
        /\ Len(Attempts) = cfg.count
        /\ Len(Events("generate")) = IF llm_client THEN cfg.count ELSE 0
        /\ Len(Events("error")) + Len(written) = cfg.count
        /\ \A j \in 1..cfg.count :
              Cardinality({k \in 1..Len(log) :
                              log[k][1] = "attempt" /\ log[k][2] = j}) = 1

C6_Witness ==
    /\ pc = "done"
    /\ cfg.count >= 1 /\ cfg.count < Len(profiles)
    /\ Len(Attempts) = cfg.count
    /\ Events("error") # <<>>

\* ---------------------------------------------------------------------- C7
\* C7: with skip_existing, every profile whose id is the profile field of a
\* JSON file of the output directory is out of the candidates before
\* total_docs is computed and is never attempted; without it the directory
\* is not scanned and no profile is removed.
C7_SkipExisting ==
    /\ cfg.skip_existing =>
          /\ (pc = "count" \/ InLoop) =>
                /\ Range(profiles) \cap ProfileFields(dir0) = {}
                /\ Range(profiles) = Range(LoadedProfiles) \ ProfileFields(dir0)
          /\ Range(Attempts) \cap ProfileFields(dir0) = {}
          /\ InLoop => total_docs = IF cfg.count = -1 THEN Len(profiles)
                                    ELSE cfg.count
    /\ ~cfg.skip_existing =>
          /\ ~scan.called
          /\ profiles = LoadedProfiles

C7_Witness ==
    /\ cfg.skip_existing
    /\ pc = "done"
    /\ ProfileFields(dir0) \cap Range(LoadedProfiles) # {}
    /\ Attempts # <<>>
    /\ \E f \in dir0 : f.kind = "invalid_json"

\* ---------------------------------------------------------------------- C8
\* C8: the scan never fails on a malformed file: it returns the profile ids
\* of the well-formed files whatever else is in the directory.
C8_ScanNeverFails ==
    scan.called =>
        /\ ~scan.raised
        /\ scan.existing_profiles = ProfileFields(dir0)

\* ---------------------------------------------------------------------- C9
HasPair(s) ==
    \E a, b \in 1..Len(s) : a < b /\ s[a] = OPEN /\ s[b] = CLOSE

FirstOpen(s) == CHOOSE a \in 1..Len(s) :
    s[a] = OPEN /\ \A c \in 1..(a - 1) : s[c] # OPEN

FirstCloseAfter(s, a) == CHOOSE b \in (a + 1)..Len(s) :
    s[b] = CLOSE /\ \A c \in (a + 1)..(b - 1) : s[c] # CLOSE

\* s without its leading and trailing whitespace
Stripped(s) ==
    LET keep == {k \in 1..Len(s) : s[k] \notin Whitespace}
    IN IF keep = {} THEN <<>>
       ELSE SubSeq(s, CHOOSE k \in keep : \A m \in keep : k <= m,
                      CHOOSE k \in keep : \A m \in keep : k >= m)

\* C9: the result is the text between the first <output> and the first
\* </output> after it, stripped, when the text holds such a pair, and the
\* whole text, stripped, when it holds none.
C9_Extraction ==
    epc = "done" =>
        extracted =
            IF HasPair(response_text)
            THEN Stripped(SubSeq(response_text,
                                 FirstOpen(response_text) + 1,
                                 FirstCloseAfter(response_text,
                                                 FirstOpen(response_text)) - 1))
            ELSE Stripped(response_text)

C9_Witness ==
    /\ epc = "done"
    /\ HasPair(response_text)
    /\ FirstOpen(response_text) > 1
    /\ response_text[FirstOpen(response_text) + 1] = "\n"
    /\ extracted = <<"x">>

\* --------------------------------------------------------------------- C10
\* C10: when create_llm_client raises, main() logs the error and returns
\* before the directory is scanned or a profile attempted; when the LLM is
\* disabled or the provider is none, the run goes on in prompt-only mode and
\* every document it saves has no content field.
C10_ClientInit ==
    /\ (cfg.llm_enabled /\ cfg.create_result = "raise" /\ pc # "init_llm") =>
          /\ pc = "returned"
          /\ log = <<<<"init_error", 0, NoProfile>>>>
          /\ ~scan.called
          /\ written = <<>>
          /\ dir = dir0
    /\ ((~cfg.llm_enabled \/ cfg.create_result = "none") /\ pc # "init_llm") =>
          /\ pc # "returned"
          /\ ~llm_client
          /\ Events("init_error") = <<>>
          /\ Events("generate") = <<>>
          /\ \A w \in Range(written) :
                /\ w.content = None
                /\ "content" \notin DOMAIN w.doc

C10_Witness ==
    /\ pc = "returned"
    /\ cfg.skip_existing
    /\ \E f \in dir0 : f.kind = "list"

====
